---- MODULE Spec2Model ----
(***************************************************************************)
(* Model of core/communicator/device_class_communicator.go: the            *)
(* deviceClassCommunicator accessors, the interface table builders and     *)
(* the SNMP walk-and-group primitive getValuesBySNMPWalk.                  *)
(*                                                                         *)
(* Strings that the code parses, splits or formats are sequences of        *)
(* one-character strings, so that strings.Split, fmt.Sprint and the weak   *)
(* string-to-uint decode are computed rather than assumed.                 *)
(***************************************************************************)
EXTENDS Integers, Sequences, FiniteSets, TLC

VARIABLES o, root, dev, snmp, op, arg, result, calls, steps

vars == <<o, root, dev, snmp, op, arg, result, calls, steps>>

(* ---------------------------------------------------------------------- *)
(* Bounds                                                                  *)
(* ---------------------------------------------------------------------- *)
\* number of rows (trailing indices 1..MaxIdx) a walked column can hold
MaxIdx == 2
\* number of interface Type groups a device class declares at most
MaxTypes == 2
\* a context can be cancelled during protocol call 1..MaxCancel of an operation
MaxCancel == 2

(* ---------------------------------------------------------------------- *)
(* Strings                                                                 *)
(* ---------------------------------------------------------------------- *)
DigitChar == <<"0", "1", "2", "3", "4", "5", "6", "7", "8", "9">>

IsDigit(c) == \E d \in 1..10 : DigitChar[d] = c

DigitVal(c) == (CHOOSE d \in 1..10 : DigitChar[d] = c) - 1

RECURSIVE Sprint(_)
\* fmt.Sprint of an unsigned integer: its decimal digits
Sprint(n) == IF n < 10 THEN <<DigitChar[n + 1]>>
             ELSE Sprint(n \div 10) \o <<DigitChar[(n % 10) + 1]>>

RECURSIVE DigitsValue(_, _)
DigitsValue(s, acc) == IF s = <<>> THEN acc
                       ELSE DigitsValue(Tail(s), acc * 10 + DigitVal(Head(s)))

\* strconv.ParseUint as the weak decode uses it: decimal digits only
ParseUint(s) == IF s # <<>> /\ \A i \in 1..Len(s) : IsDigit(s[i])
                THEN [ok |-> TRUE, n |-> DigitsValue(s, 0)]
                ELSE [ok |-> FALSE, n |-> 0]

RECURSIVE LastSegment(_, _)
\* strings.Split(s, ".") followed by taking the last element
LastSegment(s, acc) == IF s = <<>> THEN acc
                       ELSE IF Head(s) = "." THEN LastSegment(Tail(s), <<>>)
                       ELSE LastSegment(Tail(s), Append(acc, Head(s)))

RECURSIVE TrimLeft(_)
TrimLeft(s) == IF s # <<>> /\ Head(s) = " " THEN TrimLeft(Tail(s)) ELSE s

RECURSIVE TrimRight(_)
TrimRight(s) == IF s # <<>> /\ s[Len(s)] = " " THEN TrimRight(SubSeq(s, 1, Len(s) - 1)) ELSE s

\* strings.TrimSpace
TrimSpace(s) == TrimRight(TrimLeft(s))

(* ---------------------------------------------------------------------- *)
(* Errors and optional values                                              *)
(* ---------------------------------------------------------------------- *)
None == <<>>
Some(v) == <<v>>

NoErr == [kind |-> "nil", msg |-> "", cause |-> "nil"]
\* tholaerr.NewNotImplementedError
NotImplementedError(m) == [kind |-> "notImplemented", msg |-> m, cause |-> "notImplemented"]
\* errors.New / fmt.Errorf
Error(m) == [kind |-> "error", msg |-> m, cause |-> "error"]
\* errors.Wrap(err, m): a plain error that keeps the kind of its cause
Wrap(err, m) == [kind |-> "error", msg |-> m, cause |-> err.cause]
\* a nil pointer dereference
Panic == [kind |-> "panic", msg |-> "nil pointer dereference", cause |-> "panic"]

(* ---------------------------------------------------------------------- *)
(* Protocol session                                                        *)
(* ---------------------------------------------------------------------- *)
\* The outcome of the n-th protocol call of an operation for the object oid:
\* what the device answers, unless the context is cancelled by then.
SessionOutcome(oid, n, cancelAt) ==
    IF cancelAt > 0 /\ n >= cancelAt
    THEN [kind |-> "cancelled", rows |-> <<>>, val |-> [t |-> "none", n |-> 0]]
    ELSE dev[oid]

Call(k, oid, outcome) == [call |-> k, oid |-> oid, outcome |-> outcome.kind]

(* ---------------------------------------------------------------------- *)
(* Maps                                                                    *)
(* ---------------------------------------------------------------------- *)
EmptyMap == <<>>

MapPut(m, k, v) == [x \in (DOMAIN m) \cup {k} |-> IF x = k THEN v ELSE m[x]]

\* the elements of the sequence ord that are keys of the map m, in ord's order
RECURSIVE Restrict(_, _)
Restrict(ord, keys) == IF ord = <<>> THEN <<>>
                       ELSE IF Head(ord) \in keys THEN <<Head(ord)>> \o Restrict(Tail(ord), keys)
                       ELSE Restrict(Tail(ord), keys)

(* ---------------------------------------------------------------------- *)
(* Operator chain                                                          *)
(* ---------------------------------------------------------------------- *)
RECURSIVE KeepDigits(_)
KeepDigits(s) == IF s = <<>> THEN <<>>
                 ELSE IF IsDigit(Head(s)) THEN <<Head(s)>> \o KeepDigits(Tail(s))
                 ELSE KeepDigits(Tail(s))

\* operators.apply: "none" is the empty chain, "regexReplace" rewrites every
\* non-digit character to nothing, "multiply" scales a number by ten and
\* fails on a value that is not a number.
apply(operators, v) ==
    CASE operators = "none" -> [ok |-> TRUE, v |-> v]
      [] operators = "regexReplace" -> [ok |-> TRUE, v |-> KeepDigits(v)]
      [] operators = "multiply" ->
            IF ParseUint(v).ok THEN [ok |-> TRUE, v |-> Sprint(ParseUint(v).n * 10)]
            ELSE [ok |-> FALSE, v |-> v]

(* ---------------------------------------------------------------------- *)
(* getValuesBySNMPWalk                                                     *)
(* ---------------------------------------------------------------------- *)
\* a walker to which no error is a not-found error
IsNotFoundErrorNever(outcome) == FALSE

\* tholaerr.IsNotFoundError(err) on the error of a walk (line 425)
IsNotFoundError(outcome) == outcome.kind = "notFound"

\* the test that decides whether a row is stored (line 439)
IsStored(res) == res # <<>>

\* a walker that makes a new sub-map for every value it stores
SubMapFresh(networkInterfaces, ifIndex) == EmptyMap

\* the sub-map of the index, created on first use (lines 447-449)
SubMap(networkInterfaces, ifIndex) ==
    IF ifIndex \in DOMAIN networkInterfaces THEN networkInterfaces[ifIndex] ELSE EmptyMap

RECURSIVE ResponseLoop(_, _, _, _)
\* the loop over the rows of one walk response (lines 433-452)
ResponseLoop(snmpResponse, name, oid, networkInterfaces) ==
    IF snmpResponse = <<>> THEN [err |-> NoErr, table |-> networkInterfaces]
    ELSE LET response == Head(snmpResponse)
             res == response.value
         IN IF ~response.ok
            THEN [err |-> Error("couldn't get value from response response"), table |-> EmptyMap]
            ELSE IF IsStored(res)
            THEN LET resNormalized == apply(oid.operators, res)
                     ifIndex == LastSegment(response.oid, <<>>)
                     sub == SubMap(networkInterfaces, ifIndex)
                 IN IF ~resNormalized.ok
                    THEN [err |-> Error("response couldn't be normalized"), table |-> EmptyMap]
                    ELSE ResponseLoop(Tail(snmpResponse), name, oid,
                            MapPut(networkInterfaces, ifIndex, MapPut(sub, name, resNormalized.v)))
            ELSE ResponseLoop(Tail(snmpResponse), name, oid, networkInterfaces)

RECURSIVE WalkLoop(_, _, _, _, _)

\* the end of one iteration of the loop over the named OIDs: r is the
\* outcome of the loop over the rows of the walk response
WalkNext(oids, ord, log, cancelAt, r) ==
    IF r.err.kind # "nil"
    THEN [err |-> r.err, table |-> EmptyMap, calls |-> log]
    ELSE WalkLoop(oids, Tail(ord), r.table, log, cancelAt)

\* the loop over the named OIDs of the group, in the iteration order ord
\* (lines 422-453)
WalkLoop(oids, ord, networkInterfaces, log, cancelAt) ==
    IF ord = <<>> THEN [err |-> NoErr, table |-> networkInterfaces, calls |-> log]
    ELSE LET name == Head(ord)
             oid == oids[name]
             outcome == SessionOutcome(oid.OID, Len(log) + 1, cancelAt)
             log2 == Append(log, Call("SNMPWalk", oid.OID, outcome))
         IN IF outcome.kind # "ok"
            THEN IF IsNotFoundError(outcome)
                 THEN WalkLoop(oids, Tail(ord), networkInterfaces, log2, cancelAt)
                 ELSE [err |-> Wrap(Error(outcome.kind), "failed to get oid value"),
                       table |-> EmptyMap, calls |-> log2]
            ELSE WalkNext(oids, ord, log2, cancelAt,
                          ResponseLoop(outcome.rows, name, oid, networkInterfaces))

\* getValuesBySNMPWalk(ctx, oids); ord is the order in which the range over
\* the map oids yields its names
getValuesBySNMPWalk(oids, ord, log, cancelAt) ==
    IF ~snmp
    THEN [err |-> Error("snmp client is empty"), table |-> EmptyMap, calls |-> log]
    ELSE WalkLoop(oids, Restrict(ord, DOMAIN oids), EmptyMap, log, cancelAt)

(* ---------------------------------------------------------------------- *)
(* device.Interface and its weak decode                                    *)
(* ---------------------------------------------------------------------- *)
\* var networkInterface device.Interface: every pointer field nil
ZeroInterface == [IfIndex |-> None, IfDescr |-> None, IfSpeed |-> None]

\* decoding one uint64 pointer field: absent key keeps the field, a string
\* that is no number is an error
DecodeUint(m, key, old) ==
    IF key \notin DOMAIN m THEN [ok |-> TRUE, v |-> old]
    ELSE IF ParseUint(m[key]).ok THEN [ok |-> TRUE, v |-> Some(ParseUint(m[key]).n)]
    ELSE [ok |-> FALSE, v |-> old]

\* a decode that zeroes the fields the map does not name
DecodeStringZeroFields(m, key, old) ==
    IF key \notin DOMAIN m THEN None ELSE Some(m[key])

\* decoding one string pointer field
DecodeString(m, key, old) ==
    IF key \notin DOMAIN m THEN old ELSE Some(m[key])

\* mapstructure.WeakDecode(m, &rec): fields named in m are overwritten,
\* the others are kept, keys that name no field are ignored
WeakDecode(m, rec) ==
    LET i == DecodeUint(m, "ifIndex", rec.IfIndex)
        sp == DecodeUint(m, "ifSpeed", rec.IfSpeed)
    IN [ok |-> i.ok /\ sp.ok,
        rec |-> [IfIndex |-> i.v,
                 IfDescr |-> DecodeString(m, "ifDescr", rec.IfDescr),
                 IfSpeed |-> sp.v]]

(* ---------------------------------------------------------------------- *)
(* GetIfTable                                                              *)
(* ---------------------------------------------------------------------- *)
RECURSIVE DecodeLoop(_, _, _)
\* the loop over the grouped raw table (lines 147-155), keys in order iord
DecodeLoop(networkInterfacesRaw, iord, networkInterfaces) ==
    IF iord = <<>> THEN [ok |-> TRUE, list |-> networkInterfaces]
    ELSE LET d == WeakDecode(networkInterfacesRaw[Head(iord)], ZeroInterface)
         IN IF ~d.ok THEN [ok |-> FALSE, list |-> <<>>]
            ELSE DecodeLoop(networkInterfacesRaw, Tail(iord), Append(networkInterfaces, d.rec))

\* the comparison of sort.Slice (line 158)
Less(a, b) == a.IfIndex[1] < b.IfIndex[1]

RECURSIVE Insert(_, _)
\* insertion of x behind every element that is not greater than it
Insert(sorted, x) ==
    IF sorted = <<>> THEN <<x>>
    ELSE IF Less(x, sorted[Len(sorted)])
         THEN Append(Insert(SubSeq(sorted, 1, Len(sorted) - 1), x), sorted[Len(sorted)])
         ELSE Append(sorted, x)

RECURSIVE InsertionSort(_, _)
InsertionSort(list, sorted) ==
    IF list = <<>> THEN sorted
    ELSE InsertionSort(Tail(list), Insert(sorted, Head(list)))

\* sort.Slice(networkInterfaces, less) (lines 157-159): the comparison
\* dereferences IfIndex of both elements, and every element of a list of
\* two or more is compared at least once
SortSlice(list) ==
    IF Len(list) >= 2 /\ \E i \in 1..Len(list) : list[i].IfIndex = None
    THEN [panic |-> TRUE, list |-> <<>>]
    ELSE [panic |-> FALSE, list |-> InsertionSort(list, <<>>)]

NoList(err, log) == [err |-> err, list |-> <<>>, calls |-> log, merges |-> <<>>]

\* GetIfTable after its walk returned w (lines 141-161): decode every index
\* of the grouped raw table, in the iteration order iord, and sort
DecodeAndSort(w, iord) ==
    IF w.err.kind # "nil" THEN NoList(w.err, w.calls)
    ELSE LET d == DecodeLoop(w.table, Restrict(iord, DOMAIN w.table), <<>>)
             sorted == SortSlice(d.list)
         IN IF ~d.ok
            THEN NoList(Error("can't parse oid values into Interface struct"), w.calls)
            ELSE IF sorted.panic THEN NoList(Panic, w.calls)
            ELSE [err |-> NoErr, list |-> sorted.list, calls |-> w.calls, merges |-> <<>>]

\* deviceClassCommunicator.GetIfTable with receiver definition def; ord is
\* the map iteration order of the walk, iord that of the grouped raw table
GetIfTableOf(def, ord, iord, log, cancelAt) ==
    IF ~def.interfaces.present \/ def.interfaces.IfTableNil
    THEN NoList(NotImplementedError("not implemented"), log)
    ELSE DecodeAndSort(getValuesBySNMPWalk(def.interfaces.IfTable, ord, log, cancelAt), iord)

\* o.head.GetIfTable: the root communicator runs the base table build of
\* the root device class
headGetIfTable(ord, iord, log, cancelAt) == GetIfTableOf(root, ord, iord, log, cancelAt)

(* ---------------------------------------------------------------------- *)
(* GetInterfaces                                                           *)
(* ---------------------------------------------------------------------- *)
RECURSIVE MergeLoop(_, _, _)
\* the loop over the base records for one type group (lines 120-128)
MergeLoop(networkInterfaces, i, specialInterfacesRaw) ==
    IF i > Len(networkInterfaces) THEN [err |-> NoErr, list |-> networkInterfaces]
    ELSE IF networkInterfaces[i].IfIndex = None THEN [err |-> Panic, list |-> <<>>]
    ELSE LET key == Sprint(networkInterfaces[i].IfIndex[1])
         IN IF key \in DOMAIN specialInterfacesRaw
            THEN LET d == WeakDecode(specialInterfacesRaw[key], networkInterfaces[i])
                 IN IF ~d.ok
                    THEN [err |-> Error("can't parse oid values into Interface struct"), list |-> <<>>]
                    ELSE MergeLoop([networkInterfaces EXCEPT ![i] = d.rec], i + 1, specialInterfacesRaw)
            ELSE MergeLoop(networkInterfaces, i + 1, specialInterfacesRaw)

RECURSIVE TypesLoop(_, _, _, _, _, _, _)

\* one iteration of the loop over the type groups after its walk returned w
\* (lines 116-128)
MergeGroup(Types, k, ords, networkInterfaces, cancelAt, merges, w) ==
    IF w.err.kind # "nil" THEN NoList(w.err, w.calls)
    ELSE LET m == MergeLoop(networkInterfaces, 1, w.table)
         IN IF m.err.kind # "nil" THEN NoList(m.err, w.calls)
            ELSE TypesLoop(Types, k + 1, ords, m.list, w.calls, cancelAt,
                    Append(merges, [before |-> networkInterfaces, raw |-> w.table,
                                    after |-> m.list]))

\* the loop over the interface type groups (lines 114-129); merges records,
\* for every group merged, the list before, the group's table and the list after
TypesLoop(Types, k, ords, networkInterfaces, log, cancelAt, merges) ==
    IF k > Len(Types)
    THEN [err |-> NoErr, list |-> networkInterfaces, calls |-> log, merges |-> merges]
    ELSE MergeGroup(Types, k, ords, networkInterfaces, cancelAt, merges,
                    getValuesBySNMPWalk(Types[k].Values, ords[k + 1], log, cancelAt))

\* GetInterfaces after o.head.GetIfTable returned b (lines 109-131)
MergeTypes(def, ords, cancelAt, b) ==
    IF b.err.kind = "panic" THEN b
    ELSE IF b.err.kind # "nil" THEN NoList(Wrap(b.err, "failed to get ifTable"), b.calls)
    ELSE TypesLoop(def.interfaces.Types, 1, ords, b.list, b.calls, cancelAt, <<>>)

\* deviceClassCommunicator.GetInterfaces with receiver definition def;
\* ords[1] is the iteration order of the base walk, ords[k + 1] that of the
\* walk of type group k
GetInterfacesOf(def, ords, iord, log, cancelAt) ==
    IF ~def.interfaces.present \/ (def.interfaces.IfTableNil /\ def.interfaces.TypesNil)
    THEN NoList(NotImplementedError("not implemented"), log)
    ELSE MergeTypes(def, ords, cancelAt, headGetIfTable(ords[1], iord, log, cancelAt))

\* o.head.GetInterfaces: the root communicator runs the merged table build
\* of the root device class
headGetInterfaces(ords, iord, log, cancelAt) == GetInterfacesOf(root, ords, iord, log, cancelAt)

(* ---------------------------------------------------------------------- *)
(* GetCountInterfaces                                                      *)
(* ---------------------------------------------------------------------- *)
NoCount(err, log) == [err |-> err, n |-> 0, calls |-> log, fallback |-> None]

\* GetCountInterfaces after o.head.GetInterfaces returned interfaces
\* (lines 194-200)
CountOfTable(interfaces) ==
    IF interfaces.err.kind = "panic" THEN NoCount(Panic, interfaces.calls)
    ELSE IF interfaces.err.kind # "nil"
    THEN NoCount(Wrap(interfaces.err, "failed to read out interfaces"), interfaces.calls)
    ELSE [err |-> NoErr, n |-> Len(interfaces.list), calls |-> interfaces.calls,
          fallback |-> Some(interfaces.list)]

\* GetCountInterfaces that counts the table even when the fetch answered an
\* integer
GetCountInterfacesOfRecount(def, ords, iord, log, cancelAt) ==
    IF ~def.interfaces.present \/ def.interfaces.Count = <<>>
    THEN NoCount(NotImplementedError("not implemented"), log)
    ELSE IF ~snmp THEN NoCount(Error("snmp client is empty"), log)
    ELSE LET oid == def.interfaces.Count
             snmpResponse == SessionOutcome(oid, Len(log) + 1, cancelAt)
             log2 == Append(log, Call("SNMPGet", oid, snmpResponse))
         IN IF snmpResponse.kind = "ok" /\ snmpResponse.val.t = "none"
            THEN NoCount(Wrap(Error("empty"), "response is empty"), log2)
            ELSE IF snmpResponse.kind = "ok" /\ snmpResponse.val.t # "int"
            THEN NoCount(Error("could not parse response to int"), log2)
            ELSE CountOfTable(headGetInterfaces(ords, iord, log2, cancelAt))

\* deviceClassCommunicator.GetCountInterfaces with receiver definition def
GetCountInterfacesOf(def, ords, iord, log, cancelAt) ==
    IF ~def.interfaces.present \/ def.interfaces.Count = <<>>
    THEN NoCount(NotImplementedError("not implemented"), log)
    ELSE IF ~snmp THEN NoCount(Error("snmp client is empty"), log)
    ELSE LET oid == def.interfaces.Count
             snmpResponse == SessionOutcome(oid, Len(log) + 1, cancelAt)
             log2 == Append(log, Call("SNMPGet", oid, snmpResponse))
         IN IF snmpResponse.kind = "ok"
            THEN IF snmpResponse.val.t # "none"
                 THEN IF snmpResponse.val.t = "int"
                      THEN [err |-> NoErr, n |-> snmpResponse.val.n, calls |-> log2,
                            fallback |-> None]
                      ELSE NoCount(Error("could not parse response to int"), log2)
                 ELSE NoCount(Wrap(Error("empty"), "response is empty"), log2)
            ELSE CountOfTable(headGetInterfaces(ords, iord, log2, cancelAt))

(* ---------------------------------------------------------------------- *)
(* Scalar property accessors                                               *)
(* ---------------------------------------------------------------------- *)
IdentifyProperties == {"vendor", "model", "modelSeries", "serialNumber", "osVersion"}

UPSProperties == {"alarmLowVoltageDisconnect", "batteryAmperage", "batteryCapacity",
                  "batteryCurrent", "batteryRemainingTime", "batteryTemperature",
                  "batteryVoltage", "currentLoad", "mainsVoltageApplied",
                  "rectifierCurrent", "systemVoltage"}

Result(err) == [err |-> err, str |-> <<>>, n |-> 0, b |-> FALSE, list |-> <<>>, table |-> EmptyMap]

NoSteps == [merges |-> <<>>, fallback |-> None]

\* value.Value.Int and value.Value.Float64 on the values of the model
ValueInt(v) == ParseUint(v)

\* value.Value.Bool
ValueBool(v) == IF v \in {<<"1">>, <<"t", "r", "u", "e">>} THEN [ok |-> TRUE, b |-> TRUE]
                ELSE IF v \in {<<"0">>, <<"f", "a", "l", "s", "e">>} THEN [ok |-> TRUE, b |-> FALSE]
                ELSE [ok |-> FALSE, b |-> FALSE]

\* the final coercion of a fetched property
Coerce(type, v) ==
    CASE type = "string" -> [Result(NoErr) EXCEPT !.str = TrimSpace(v)]
      [] type \in {"int", "float64"} ->
            IF ValueInt(v).ok THEN [Result(NoErr) EXCEPT !.n = ValueInt(v).n]
            ELSE Result(Wrap(Error("parse"), "failed to convert value"))
      [] type = "bool" ->
            IF ValueBool(v).ok THEN [Result(NoErr) EXCEPT !.b = ValueBool(v).b]
            ELSE Result(Wrap(Error("parse"), "failed to parse value to bool"))

\* what the property source of a defined property can answer
PropertyOutcomes ==
    {[kind |-> "fail", v |-> <<>>]} \cup
    {[kind |-> "ok", v |-> v] : v \in {<<" ", "a", " ">>, <<"1", "2">>, <<"1">>, <<"x">>}}

\* the body shared by the 16 scalar getters: nil check, getProperty, coercion
GetProperty(defined, name, type, out) ==
    IF ~defined
    THEN [res |-> Result(NotImplementedError("no detection information available")),
          calls |-> <<>>]
    ELSE IF out.kind # "ok"
         THEN [res |-> Result(Wrap(Error(out.kind), "failed to get property")),
               calls |-> <<Call("getProperty", name, out)>>]
         ELSE [res |-> Coerce(type, out.v), calls |-> <<Call("getProperty", name, out)>>]

\* the scalar getter name returns r
ReturnProperty(name, r) ==
    /\ op' = name
    /\ result' = r.res
    /\ calls' = r.calls
    /\ steps' = NoSteps

ScalarGetter(defined, name, type) ==
    /\ op = "idle"
    /\ \E out \in PropertyOutcomes : ReturnProperty(name, GetProperty(defined, name, type, out))
    /\ UNCHANGED <<o, root, dev, snmp, arg>>

UPSDefined(name) == o.ups.present /\ name \in o.ups.defined

GetVendor == ScalarGetter("vendor" \in o.identify, "vendor", "string")
GetModel == ScalarGetter("model" \in o.identify, "model", "string")
GetModelSeries == ScalarGetter("modelSeries" \in o.identify, "modelSeries", "string")
GetSerialNumber == ScalarGetter("serialNumber" \in o.identify, "serialNumber", "string")
GetOSVersion == ScalarGetter("osVersion" \in o.identify, "osVersion", "string")
GetUPSComponentAlarmLowVoltageDisconnect ==
    ScalarGetter(UPSDefined("alarmLowVoltageDisconnect"), "alarmLowVoltageDisconnect", "int")
GetUPSComponentBatteryAmperage ==
    ScalarGetter(UPSDefined("batteryAmperage"), "batteryAmperage", "float64")
GetUPSComponentBatteryCapacity ==
    ScalarGetter(UPSDefined("batteryCapacity"), "batteryCapacity", "float64")
GetUPSComponentBatteryCurrent ==
    ScalarGetter(UPSDefined("batteryCurrent"), "batteryCurrent", "float64")
GetUPSComponentBatteryRemainingTime ==
    ScalarGetter(UPSDefined("batteryRemainingTime"), "batteryRemainingTime", "float64")
GetUPSComponentBatteryTemperature ==
    ScalarGetter(UPSDefined("batteryTemperature"), "batteryTemperature", "float64")
GetUPSComponentBatteryVoltage ==
    ScalarGetter(UPSDefined("batteryVoltage"), "batteryVoltage", "float64")
GetUPSComponentCurrentLoad ==
    ScalarGetter(UPSDefined("currentLoad"), "currentLoad", "float64")
GetUPSComponentMainsVoltageApplied ==
    ScalarGetter(UPSDefined("mainsVoltageApplied"), "mainsVoltageApplied", "bool")
GetUPSComponentRectifierCurrent ==
    ScalarGetter(UPSDefined("rectifierCurrent"), "rectifierCurrent", "float64")
GetUPSComponentSystemVoltage ==
    ScalarGetter(UPSDefined("systemVoltage"), "systemVoltage", "float64")

(* ---------------------------------------------------------------------- *)
(* Table accessors                                                         *)
(* ---------------------------------------------------------------------- *)
\* the orders in which a range over a map with key set S can yield its keys
Perms(S) == {s \in [1..Cardinality(S) -> S] : \A i, j \in 1..Cardinality(S) : i # j => s[i] # s[j]}

RECURSIVE OrdsOf(_)
\* one iteration order for each of the groups walked by an operation
OrdsOf(groups) ==
    IF groups = <<>> THEN {<<>>}
    ELSE {<<p>> \o rest : p \in Perms(DOMAIN Head(groups)), rest \in OrdsOf(Tail(groups))}

\* the groups GetInterfaces of definition def walks: the root's IfTable, then
\* the Values of each of its own types
WalkedGroups(def) ==
    <<root.interfaces.IfTable>> \o [k \in 1..Len(def.interfaces.Types) |-> def.interfaces.Types[k].Values]

\* the trailing index of row i of a walked column
RowIndex(i) == IF i = 1 THEN 10 ELSE i

IndexStrings == {Sprint(RowIndex(i)) : i \in 1..MaxIdx}

\* the table accessor name returns r
ReturnList(name, r) ==
    /\ op' = name
    /\ result' = [Result(r.err) EXCEPT !.list = r.list]
    /\ calls' = r.calls
    /\ steps' = [merges |-> r.merges, fallback |-> None]

GetIfTable ==
    /\ op = "idle"
    /\ \E ord \in Perms(DOMAIN o.interfaces.IfTable), iord \in Perms(IndexStrings),
          cancelAt \in 0..MaxCancel :
          ReturnList("GetIfTable", GetIfTableOf(o, ord, iord, <<>>, cancelAt))
    /\ UNCHANGED <<o, root, dev, snmp, arg>>

GetInterfaces ==
    /\ op = "idle"
    /\ \E ords \in OrdsOf(WalkedGroups(o)), iord \in Perms(IndexStrings),
          cancelAt \in 0..MaxCancel :
          ReturnList("GetInterfaces", GetInterfacesOf(o, ords, iord, <<>>, cancelAt))
    /\ UNCHANGED <<o, root, dev, snmp, arg>>

\* GetCountInterfaces returns r
ReturnCount(r) ==
    /\ op' = "GetCountInterfaces"
    /\ result' = [Result(r.err) EXCEPT !.n = r.n]
    /\ calls' = r.calls
    /\ steps' = [merges |-> <<>>, fallback |-> r.fallback]

GetCountInterfaces ==
    /\ op = "idle"
    /\ \E ords \in OrdsOf(WalkedGroups(root)), iord \in Perms(IndexStrings),
          cancelAt \in 0..MaxCancel :
          ReturnCount(GetCountInterfacesOf(o, ords, iord, <<>>, cancelAt))
    /\ UNCHANGED <<o, root, dev, snmp, arg>>

\* the named OID groups of the definition o
GroupsOf(def) ==
    (IF def.interfaces.IfTableNil THEN {} ELSE {def.interfaces.IfTable}) \cup
    {def.interfaces.Types[k].Values : k \in 1..Len(def.interfaces.Types)}

\* getValuesBySNMPWalk(ctx, oids) returns r
ReturnTable(oids, r) ==
    /\ op' = "getValuesBySNMPWalk"
    /\ result' = [Result(r.err) EXCEPT !.table = r.table]
    /\ calls' = r.calls
    /\ arg' = oids
    /\ steps' = NoSteps

\* a call of getValuesBySNMPWalk on one of the groups of o
WalkGroup ==
    /\ op = "idle"
    /\ \E oids \in GroupsOf(o), cancelAt \in 0..MaxCancel :
       \E ord \in Perms(DOMAIN oids) :
          ReturnTable(oids, getValuesBySNMPWalk(oids, ord, <<>>, cancelAt))
    /\ UNCHANGED <<o, root, dev, snmp>>

(* ---------------------------------------------------------------------- *)
(* Device class definitions and devices                                    *)
(* ---------------------------------------------------------------------- *)
Names == {"ifIndex", "ifDescr", "ifSpeed"}

ColDigit(name) == CASE name = "ifIndex" -> "1" [] name = "ifDescr" -> "2" [] name = "ifSpeed" -> "5"

BaseOid(name) == <<"2", ".", ColDigit(name)>>
TypeOid(k, name) == <<DigitChar[k + 3], ".", ColDigit(name)>>
CountOid == <<"1", ".", "0">>

\* a trailing index no base row has
ExtraIndex == 10 + MaxIdx

NoVal == [t |-> "none", n |-> 0]
Ok(rows) == [kind |-> "ok", rows |-> rows, val |-> NoVal]
NotFound == [kind |-> "notFound", rows |-> <<>>, val |-> NoVal]
Fail == [kind |-> "fail", rows |-> <<>>, val |-> NoVal]
GetOk(val) == [kind |-> "ok", rows |-> <<>>, val |-> val]

Row(col, idx, v) == [oid |-> col \o <<".">> \o Sprint(idx), value |-> v, ok |-> TRUE]

\* the rows of column col whose row i holds f[i]
RowsOf(col, f) == [i \in 1..MaxIdx |-> Row(col, RowIndex(i), f[i])]

RECURSIVE Reverse(_)
Reverse(q) == IF q = <<>> THEN <<>> ELSE Append(Reverse(Tail(q)), Head(q))

\* what the ifIndex column reports in row i: the row's own index, the
\* index 2 whatever the row, or nothing
IfIndexValue(i, tag) == CASE tag = "own" -> Sprint(RowIndex(i))
                          [] tag = "two" -> <<"2">>
                          [] tag = "empty" -> <<>>

IfIndexCols ==
    {NotFound, Fail} \cup
    {Ok([i \in 1..MaxIdx |-> Row(BaseOid("ifIndex"), RowIndex(i), IfIndexValue(i, f[i]))]) :
        f \in [1..MaxIdx -> {"own", "two", "empty"}]}

StdIfIndexCol == Ok([i \in 1..MaxIdx |-> Row(BaseOid("ifIndex"), RowIndex(i), Sprint(RowIndex(i)))])

DescrCols ==
    {NotFound} \cup {Ok(RowsOf(BaseOid("ifDescr"), f)) : f \in [1..MaxIdx -> {<<"e">>, <<"e", "1">>, <<>>}]}

StdDescrCol == Ok(RowsOf(BaseOid("ifDescr"), [i \in 1..MaxIdx |-> <<"e", "1">>]))

SpeedCols ==
    {NotFound, Fail,
     Ok(<<[oid |-> BaseOid("ifSpeed") \o <<".", "2">>, value |-> <<>>, ok |-> FALSE]>>)} \cup
    {Ok(RowsOf(BaseOid("ifSpeed"), f)) : f \in [1..MaxIdx -> {<<"7">>, <<"x">>, <<>>}]} \cup
    {Ok(Reverse(RowsOf(BaseOid("ifSpeed"), [i \in 1..MaxIdx |-> <<"7">>])))}

\* a description column whose rows all differ
DistinctDescrCol == Ok(RowsOf(BaseOid("ifDescr"), [i \in 1..MaxIdx |-> <<"e", DigitChar[i + 1]>>]))

StdSpeedCol == Ok(RowsOf(BaseOid("ifSpeed"), [i \in 1..MaxIdx |-> <<"7">>]))

\* the speed column of type group k: its value is 7 + k; it always has a row
\* for an index that no base record has
TypeSpeedCols(k) ==
    {NotFound, Fail} \cup
    {Ok(RowsOf(TypeOid(k, "ifSpeed"), f) \o <<Row(TypeOid(k, "ifSpeed"), ExtraIndex, Sprint(7 + k))>>) :
        f \in {[i \in 1..MaxIdx |-> Sprint(7 + k)],
               [i \in 1..MaxIdx |-> IF i = 1 THEN Sprint(7 + k) ELSE <<>>],
               [i \in 1..MaxIdx |-> IF i = 1 THEN <<"x">> ELSE Sprint(7 + k)]}}

TypeDescrCol(k) == Ok(RowsOf(TypeOid(k, "ifDescr"), [i \in 1..MaxIdx |-> <<"t", DigitChar[k + 1]>>]))

\* the ifIndex column of a type group renumbers the interface with index 2
TypeIfIndexCol(k) == Ok(<<Row(TypeOid(k, "ifIndex"), 2, <<"1", "1">>)>>)

DevOids == {BaseOid(n) : n \in Names} \cup {CountOid} \cup
           {TypeOid(k, n) : k \in 1..MaxTypes, n \in Names}

\* a device: what it answers for each object
Device(bi, bd, bs, ts, cnt) ==
    [oid \in DevOids |->
        IF oid = BaseOid("ifIndex") THEN bi
        ELSE IF oid = BaseOid("ifDescr") THEN bd
        ELSE IF oid = BaseOid("ifSpeed") THEN bs
        ELSE IF oid = CountOid THEN cnt
        ELSE LET k == CHOOSE k \in 1..MaxTypes : \E n \in Names : oid = TypeOid(k, n)
             IN IF oid = TypeOid(k, "ifSpeed") THEN ts[k]
                ELSE IF oid = TypeOid(k, "ifDescr") THEN TypeDescrCol(k)
                ELSE TypeIfIndexCol(k)]

NoTypeCols == [k \in 1..MaxTypes |-> NotFound]

\* a named OID group: for each name either "absent" or its operator chain
Group(oidOf(_), ops) ==
    [n \in {n \in Names : ops[n] # "absent"} |-> [OID |-> oidOf(n), operators |-> ops[n]]]

\* the base groups whose entries ifIndex, ifDescr and ifSpeed are absent or
\* have one of the given operator chains
BaseGroups(A, B, C) ==
    {Group(BaseOid, [n \in Names |-> CASE n = "ifIndex" -> a [] n = "ifDescr" -> b [] n = "ifSpeed" -> c]) :
        a \in A, b \in B, c \in C}

StdGroup == Group(BaseOid, [n \in Names |-> "none"])

\* the type group at position k that declares the names in S
TypeGroup(k, S) ==
    [Values |-> Group(LAMBDA n : TypeOid(k, n), [n \in Names |-> IF n \in S THEN "none" ELSE "absent"])]

TypeGroups(k) == {TypeGroup(k, S) : S \in {{"ifSpeed"}, {"ifSpeed", "ifDescr"}}}

RECURSIVE TypeSeqs(_)
\* the sequences of k type groups
TypeSeqs(k) == IF k = 0 THEN {<<>>}
               ELSE {Append(q, t) : q \in TypeSeqs(k - 1), t \in TypeGroups(k)}

\* components.interfaces: IfTable and Types are maps and slices that are nil
\* or not, Count is a string
Interfaces(IfTableNil, IfTable, TypesNil, Types, Count) ==
    [present |-> TRUE, IfTableNil |-> IfTableNil, IfTable |-> IfTable,
     TypesNil |-> TypesNil, Types |-> Types, Count |-> Count]

NoInterfaces ==
    [present |-> FALSE, IfTableNil |-> TRUE, IfTable |-> EmptyMap,
     TypesNil |-> TRUE, Types |-> <<>>, Count |-> <<>>]

NoUPS == [present |-> FALSE, defined |-> {}]

Class(identify, ups, interfaces) == [identify |-> identify, ups |-> ups, interfaces |-> interfaces]

StdRoot == Class({}, NoUPS, Interfaces(FALSE, StdGroup, TRUE, <<>>, <<>>))

Scenario(cls, rt, d, s) == [o |-> cls, root |-> rt, dev |-> d, snmp |-> s]

(* ---------------------------------------------------------------------- *)
(* Scenarios                                                               *)
(* ---------------------------------------------------------------------- *)
\* a class that is its own root and has the base group g
OwnRoot(g) == Class({}, NoUPS, Interfaces(FALSE, g, TRUE, <<>>, <<>>))

\* one class, which is its own root; the ifIndex column varies
IfIndexScenarios ==
    {Scenario(OwnRoot(g), OwnRoot(g), Device(bi, bd, StdSpeedCol, NoTypeCols, NotFound), TRUE) :
        g \in BaseGroups({"absent", "none"}, {"absent", "none"}, {"absent", "none"}),
        bi \in IfIndexCols, bd \in {NotFound, DistinctDescrCol}}

\* one class, which is its own root; the ifDescr or the ifSpeed column varies
ColumnScenarios ==
    {Scenario(OwnRoot(g), OwnRoot(g), Device(StdIfIndexCol, bd, StdSpeedCol, NoTypeCols, NotFound), TRUE) :
        g \in BaseGroups({"absent", "none"}, {"none", "regexReplace"}, {"absent"}),
        bd \in DescrCols} \cup
    {Scenario(OwnRoot(g), OwnRoot(g), Device(StdIfIndexCol, StdDescrCol, bs, NoTypeCols, NotFound), TRUE) :
        g \in BaseGroups({"absent", "none"}, {"absent", "none"}, {"none", "multiply"}),
        bs \in SpeedCols}

\* Types is nil, or a sequence of speed and description groups, or begins
\* with a group that renumbers an interface
TypeConfigs ==
    {[nil |-> TRUE, types |-> <<>>]} \cup
    {[nil |-> FALSE, types |-> q] :
        q \in UNION {TypeSeqs(k) : k \in 0..MaxTypes} \cup
              {<<TypeGroup(1, {"ifIndex"})>>, <<TypeGroup(1, {"ifIndex"}), TypeGroup(2, {"ifSpeed"})>>}}

\* the speed column of type group k in which every row holds 7 + k
StdTypeSpeedCol(k) ==
    Ok(RowsOf(TypeOid(k, "ifSpeed"), [i \in 1..MaxIdx |-> Sprint(7 + k)])
       \o <<Row(TypeOid(k, "ifSpeed"), ExtraIndex, Sprint(7 + k))>>)

StdTypeCols == [k \in 1..MaxTypes |-> StdTypeSpeedCol(k)]

DuplicateIfIndexCol == Ok(RowsOf(BaseOid("ifIndex"), [i \in 1..MaxIdx |-> <<"2">>]))

\* a specialised class with type groups under the standard root; the
\* ifIndex column varies, or the column of one declared type group
TypeScenariosOf(tc) ==
    {Scenario(Class({}, NoUPS, Interfaces(x.tn, IF x.tn THEN EmptyMap ELSE StdGroup, tc.nil, tc.types, <<>>)),
              StdRoot,
              Device(x.bi, DistinctDescrCol, StdSpeedCol, x.ts, NotFound), TRUE) :
        x \in {[tn |-> tn, bi |-> bi, ts |-> StdTypeCols] :
                  tn \in BOOLEAN,
                  bi \in {StdIfIndexCol, Ok(<<Row(BaseOid("ifIndex"), 2, <<"2">>)>>),
                          DuplicateIfIndexCol}} \cup
              {[tn |-> FALSE, bi |-> StdIfIndexCol, ts |-> ts] :
                  ts \in UNION {{[StdTypeCols EXCEPT ![j] = c] : c \in TypeSpeedCols(j)} :
                                   j \in 1..Len(tc.types)}}}

TypeScenarios == UNION {TypeScenariosOf(tc) : tc \in TypeConfigs}

CountOutcomes ==
    {NotFound, Fail, GetOk([t |-> "string", n |-> 0]), GetOk(NoVal)} \cup
    {GetOk([t |-> "int", n |-> n]) : n \in 0..MaxIdx + 1}

\* classes with a Count OID; the root may have a type group of its own
CountScenarios ==
    {Scenario(Class({}, NoUPS, Interfaces(tn, IF tn THEN EmptyMap ELSE StdGroup, TRUE, <<>>, cnt)),
              rt, Device(bi, StdDescrCol, StdSpeedCol, StdTypeCols, co), sn) :
        tn \in BOOLEAN, cnt \in {<<>>, CountOid},
        rt \in {StdRoot,
                Class({}, NoUPS, Interfaces(TRUE, EmptyMap, TRUE, <<>>, <<>>)),
                Class({}, NoUPS, Interfaces(FALSE, StdGroup, FALSE, <<TypeGroup(1, {"ifSpeed"})>>, <<>>))},
        bi \in {StdIfIndexCol, Fail, Ok(<<Row(BaseOid("ifIndex"), 2, <<"2">>)>>)},
        co \in CountOutcomes, sn \in BOOLEAN}

\* classes that define some scalar properties and lack others
PropertyScenarios ==
    {Scenario(Class(p.id, p.ups, ifs), StdRoot,
              Device(StdIfIndexCol, StdDescrCol, StdSpeedCol, NoTypeCols, GetOk([t |-> "int", n |-> 1])),
              TRUE) :
        p \in {[id |-> id, ups |-> NoUPS] :
                  id \in {{}, IdentifyProperties} \cup {{a} : a \in IdentifyProperties}} \cup
              {[id |-> {}, ups |-> [present |-> TRUE, defined |-> d]] :
                  d \in {{}, UPSProperties} \cup {{a} : a \in UPSProperties}},
        ifs \in {NoInterfaces,
                 Interfaces(TRUE, EmptyMap, TRUE, <<>>, <<>>),
                 Interfaces(TRUE, EmptyMap, TRUE, <<>>, CountOid),
                 Interfaces(TRUE, EmptyMap, FALSE, <<>>, <<>>),
                 Interfaces(FALSE, EmptyMap, TRUE, <<>>, <<>>),
                 Interfaces(FALSE, StdGroup, TRUE, <<>>, CountOid)}}

Scenarios == IfIndexScenarios \cup ColumnScenarios \cup TypeScenarios \cup CountScenarios
             \cup PropertyScenarios

(* ---------------------------------------------------------------------- *)
(* Specification                                                           *)
(* ---------------------------------------------------------------------- *)
\* A behaviour is one resolution call on a loaded definition and a device:
\* the communicator keeps no state between calls.
InitOf(scenarios) ==
    /\ \E sc \in scenarios : /\ o = sc.o
                             /\ root = sc.root
                             /\ dev = sc.dev
                             /\ snmp = sc.snmp
    /\ op = "idle"
    /\ arg = EmptyMap
    /\ result = Result(NoErr)
    /\ calls = <<>>
    /\ steps = NoSteps

Init == InitOf(Scenarios)

Next ==
    \/ GetVendor
    \/ GetModel
    \/ GetModelSeries
    \/ GetSerialNumber
    \/ GetOSVersion
    \/ GetInterfaces
    \/ GetIfTable
    \/ GetCountInterfaces
    \/ GetUPSComponentAlarmLowVoltageDisconnect
    \/ GetUPSComponentBatteryAmperage
    \/ GetUPSComponentBatteryCapacity
    \/ GetUPSComponentBatteryCurrent
    \/ GetUPSComponentBatteryRemainingTime
    \/ GetUPSComponentBatteryTemperature
    \/ GetUPSComponentBatteryVoltage
    \/ GetUPSComponentCurrentLoad
    \/ GetUPSComponentMainsVoltageApplied
    \/ GetUPSComponentRectifierCurrent
    \/ GetUPSComponentSystemVoltage
    \/ WalkGroup

Spec == Init /\ [][Next]_vars

\* the accessors on classes that define some capabilities and lack others
SpecProperties == InitOf(PropertyScenarios) /\ [][Next]_vars

\* the accessors on classes that define a Count OID
SpecCount == InitOf(CountScenarios) /\ [][Next]_vars

\* the accessors on classes that declare interface type groups
SpecTypes == InitOf(TypeScenarios) /\ [][Next]_vars

\* the accessors on a class with a base group, over the devices' columns
SpecWalk == InitOf(IfIndexScenarios \cup ColumnScenarios) /\ [][Next]_vars

(* ---------------------------------------------------------------------- *)
(* Properties                                                              *)
(* ---------------------------------------------------------------------- *)
\* the call returned the not-implemented outcome and touched no session
Unsupported == result.err.kind = "notImplemented" /\ calls = <<>>

\* the capability of the accessor just called is absent from the definition
\* o; for GetInterfaces, typesAbsent says when its Types count as absent
CapabilityAbsent(typesAbsent) ==
    CASE op \in IdentifyProperties -> op \notin o.identify
      [] op \in UPSProperties -> ~UPSDefined(op)
      [] op = "GetIfTable" -> ~o.interfaces.present \/ o.interfaces.IfTableNil
      [] op = "GetInterfaces" ->
            ~o.interfaces.present \/ (o.interfaces.IfTableNil /\ typesAbsent)
      [] op = "GetCountInterfaces" -> ~o.interfaces.present \/ o.interfaces.Count = <<>>
      [] OTHER -> FALSE

\* C1: every accessor whose capability is absent returns the unsupported
\* outcome and issues no protocol call, where for GetInterfaces absent means
\* no IfTable and no Types entries.
C1_AbsentNoEntries == CapabilityAbsent(Len(o.interfaces.Types) = 0) => Unsupported

\* what the nil checks of the accessors do guarantee: the same, where for
\* GetInterfaces absent means that IfTable and Types are both nil
AbsentNilIsUnsupported == CapabilityAbsent(o.interfaces.TypesNil) => Unsupported

CountDefined == o.interfaces.present /\ o.interfaces.Count # <<>>

\* the direct fetch of GetCountInterfaces was issued and answered an integer
DirectFetchSucceeded ==
    /\ op = "GetCountInterfaces" /\ CountDefined
    /\ Len(calls) >= 1 /\ calls[1].outcome = "ok"
    /\ dev[o.interfaces.Count].val.t = "int"

\* C2: when the direct fetch at the Count OID succeeds with the integer N,
\* GetCountInterfaces returns N without error, and the fetch is the only
\* protocol call: no walk and no table build happens.
C2_DirectCount ==
    DirectFetchSucceeded =>
        /\ result.err.kind = "nil"
        /\ result.n = dev[o.interfaces.Count].val.n
        /\ Len(calls) = 1 /\ calls[1].call = "SNMPGet"
        /\ steps.fallback = None

\* the device answered a count that differs from the length of its table
C2_Witness ==
    /\ DirectFetchSucceeded
    /\ result.n = MaxIdx + 1
    /\ dev[BaseOid("ifIndex")] = StdIfIndexCol
    /\ ~root.interfaces.IfTableNil

\* GetCountInterfaces went on to the merged table build of the root
FellBack ==
    \/ steps.fallback # None
    \/ result.err.msg = "failed to read out interfaces"
    \/ result.err.kind = "panic"

\* the SNMPGet call of GetCountInterfaces returned an error
FetchError == snmp /\ Len(calls) >= 1 /\ calls[1].outcome # "ok"

\* the SNMPGet call returned a response that is empty or no integer
FetchMalformed ==
    snmp /\ Len(calls) >= 1 /\ calls[1].outcome = "ok" /\ dev[o.interfaces.Count].val.t # "int"

NoCancel == \A i \in 1..Len(calls) : calls[i].outcome # "cancelled"

\* C3: whenever the direct fetch fails, for whatever reason (the session is
\* missing, the fetch returns an error, the response is empty or no
\* integer), GetCountInterfaces falls back to the merged table build.
C3_AnyFailureFallsBack ==
    (op = "GetCountInterfaces" /\ CountDefined /\ (~snmp \/ FetchError \/ FetchMalformed))
        => FellBack

\* the result of GetCountInterfaces is the length of the merged table f, or
\* an error when f is one
CountsTable(f) ==
    IF f.err.kind = "nil"
    THEN result.err.kind = "nil" /\ result.n = Len(f.list)
    ELSE result.err.kind # "nil"

\* what GetCountInterfaces does guarantee: when the SNMPGet call itself
\* returns an error, the call falls back to the root's merged table build and
\* returns its length, without error whenever that build succeeds; when the
\* session is missing or the response is empty or no integer, it returns an
\* error without falling back.
FetchErrorFallsBack ==
    (op = "GetCountInterfaces" /\ CountDefined) =>
        /\ FetchError =>
              /\ FellBack
              /\ NoCancel =>
                    \A ords \in OrdsOf(WalkedGroups(root)), iord \in Perms(IndexStrings) :
                        CountsTable(headGetInterfaces(ords, iord, <<>>, 0))
        /\ (~snmp \/ FetchMalformed) =>
              /\ result.err.kind = "error"
              /\ ~FellBack
              /\ Len(calls) <= 1

TableOps == {"GetIfTable", "GetInterfaces"}

\* C4: every list GetIfTable or GetInterfaces returns without error is
\* ordered strictly ascending by numeric IfIndex, so that its IfIndex values
\* are pairwise distinct.
C4_StrictlyAscending ==
    (op \in TableOps /\ result.err.kind = "nil") =>
        \A i \in 1..Len(result.list) - 1 :
            /\ result.list[i].IfIndex # None
            /\ result.list[i + 1].IfIndex # None
            /\ result.list[i].IfIndex[1] < result.list[i + 1].IfIndex[1]

\* the field of an Interface Record that the name of a group entry decodes to
FieldOf(rec, name) == CASE name = "ifIndex" -> rec.IfIndex
                        [] name = "ifDescr" -> rec.IfDescr
                        [] name = "ifSpeed" -> rec.IfSpeed

\* C5: merging one type group leaves the number and order of the records
\* as they were, leaves every record without an entry in the group's table
\* unchanged, and in a record with an entry changes no field that the entry
\* does not hold.
C5_MergeFrame ==
    \A k \in 1..Len(steps.merges) :
        LET m == steps.merges[k]
        IN /\ Len(m.after) = Len(m.before)
           /\ \A i \in 1..Len(m.before) :
                 LET key == Sprint(m.before[i].IfIndex[1])
                 IN IF key \in DOMAIN m.raw
                    THEN \A name \in Names \ DOMAIN m.raw[key] :
                            FieldOf(m.after[i], name) = FieldOf(m.before[i], name)
                    ELSE m.after[i] = m.before[i]

\* a merge that changed one record and not another, kept a field of the
\* changed record, and whose table held an index of no record
C5_Witness ==
    \E k \in 1..Len(steps.merges) :
        LET m == steps.merges[k]
        IN /\ Sprint(ExtraIndex) \in DOMAIN m.raw
           /\ \E i, j \in 1..Len(m.before) :
                 /\ m.after[i] # m.before[i]
                 /\ m.after[i].IfDescr = m.before[i].IfDescr /\ m.before[i].IfDescr # None
                 /\ m.after[j] = m.before[j]
                 /\ Sprint(m.before[j].IfIndex[1]) \notin DOMAIN m.raw

WalkerReturned == op = "getValuesBySNMPWalk"

\* the rows the device holds for the entry name of the walked group
RowsFor(name) == dev[arg[name].OID].rows

\* every walk of the group arg is answered with rows that can be
\* interpreted and normalized, or with object-not-present
OnlyNotFoundOrRows ==
    \A name \in DOMAIN arg :
        /\ dev[arg[name].OID].kind \in {"ok", "notFound"}
        /\ \A j \in 1..Len(RowsFor(name)) :
              /\ RowsFor(name)[j].ok
              /\ RowsFor(name)[j].value # <<>> => apply(arg[name].operators, RowsFor(name)[j].value).ok

\* C6: a walk that ends in object-not-present skips only that entry: all
\* entries of the group are walked, the non-empty rows of the others are in
\* the returned table and no error is returned; a walk that ends in another
\* failure makes the walker return an error and no table.
C6_NotFoundSkipsEntry ==
    WalkerReturned =>
        /\ (snmp /\ NoCancel /\ OnlyNotFoundOrRows) =>
              /\ result.err.kind = "nil"
              /\ {calls[i].oid : i \in 1..Len(calls)} = {arg[name].OID : name \in DOMAIN arg}
              /\ Len(calls) = Cardinality(DOMAIN arg)
              /\ \A name \in DOMAIN arg : \A j \in 1..Len(RowsFor(name)) :
                    LET row == RowsFor(name)[j]
                        idx == LastSegment(row.oid, <<>>)
                    IN row.value # <<>> =>
                          /\ idx \in DOMAIN result.table
                          /\ name \in DOMAIN result.table[idx]
                          /\ result.table[idx][name] = apply(arg[name].operators, row.value).v
        /\ ((\E i \in 1..Len(calls) : calls[i].outcome \notin {"ok", "notFound"})
              \/ (\E name \in DOMAIN arg : dev[arg[name].OID].kind = "fail")) =>
              /\ result.err.kind = "error"
              /\ result.table = EmptyMap

\* an entry was not present, a later entry was still walked, and the table
\* holds rows
C6_Witness ==
    /\ WalkerReturned
    /\ \E i \in 1..Len(calls) : calls[i].outcome = "notFound" /\ i < Len(calls)
    /\ result.err.kind = "nil"
    /\ result.table # EmptyMap

Types == o.interfaces.Types

\* type group k holds a non-empty row of the entry name for the index idx
Supplied(k, name, idx) ==
    /\ name \in DOMAIN Types[k].Values
    /\ dev[Types[k].Values[name].OID].kind = "ok"
    /\ \E j \in 1..Len(dev[Types[k].Values[name].OID].rows) :
          LET row == dev[Types[k].Values[name].OID].rows[j]
          IN LastSegment(row.oid, <<>>) = idx /\ row.value # <<>>

\* the value of that row after the entry's operator chain
SuppliedValue(k, name, idx) ==
    LET rows == dev[Types[k].Values[name].OID].rows
        j == CHOOSE j \in 1..Len(rows) : LastSegment(rows[j].oid, <<>>) = idx /\ rows[j].value # <<>>
    IN apply(Types[k].Values[name].operators, rows[j].value).v

Decoded(name, v) == IF name = "ifDescr" THEN Some(v) ELSE Some(ParseUint(v).n)

Last(S) == CHOOSE k \in S : \A j \in S : j <= k

\* another run of GetInterfaces, if it returns a list f, returns the same list
SameList(f) == f.err.kind = "nil" => f.list = result.list

\* C7: the type groups are applied in declared order, so a field that
\* several groups supply for an index holds the value of the last of them,
\* and the returned list is the same on every run, that is for every order
\* in which the maps are iterated.
C7_LaterGroupWins ==
    (op = "GetInterfaces" /\ result.err.kind = "nil"
        /\ \A k \in 1..Len(Types) : "ifIndex" \notin DOMAIN Types[k].Values) =>
        /\ \A i \in 1..Len(result.list) : result.list[i].IfIndex # None =>
              \A name \in {"ifDescr", "ifSpeed"} :
                 LET idx == Sprint(result.list[i].IfIndex[1])
                     K == {k \in 1..Len(Types) : Supplied(k, name, idx)}
                 IN K # {} =>
                       FieldOf(result.list[i], name) = Decoded(name, SuppliedValue(Last(K), name, idx))
        /\ \A ords \in OrdsOf(WalkedGroups(o)), iord \in Perms(IndexStrings) :
              SameList(GetInterfacesOf(o, ords, iord, <<>>, 0))

\* C8: no entry of the table the walker returns holds an empty value, and
\* no index has an empty sub-map.
C8_NoEmptyValue ==
    (WalkerReturned /\ result.err.kind = "nil") =>
        \A idx \in DOMAIN result.table :
            /\ DOMAIN result.table[idx] # {}
            /\ \A name \in DOMAIN result.table[idx] : result.table[idx][name] # <<>>

\* what the walker does guarantee: an entry exists in the returned table
\* only if the device holds a row for that index and name whose interpreted
\* value, before the operator chain is applied, is non-empty; no index has an
\* empty sub-map.
NoEmptyRowStored ==
    (WalkerReturned /\ result.err.kind = "nil") =>
        \A idx \in DOMAIN result.table :
            /\ DOMAIN result.table[idx] # {}
            /\ \A name \in DOMAIN result.table[idx] :
                  /\ name \in DOMAIN arg
                  /\ \E j \in 1..Len(RowsFor(name)) :
                        /\ LastSegment(RowsFor(name)[j].oid, <<>>) = idx
                        /\ RowsFor(name)[j].value # <<>>

\* C9: GetIfTable never returns a list that holds a record with a nil
\* IfIndex and never crashes: a record without IfIndex is a decode error.
C9_NoNilIfIndex ==
    op = "GetIfTable" =>
        /\ result.err.kind # "panic"
        /\ result.err.kind = "nil" =>
              \A i \in 1..Len(result.list) : result.list[i].IfIndex # None

\* C10: a protocol call that returns because the context was cancelled is
\* the last protocol call of its operation, and the operation returns an
\* error.
C10_NoCallAfterCancel ==
    \A i \in 1..Len(calls) :
        calls[i].outcome = "cancelled" => (i = Len(calls) /\ result.err.kind = "error")

\* a walk r of the group arg in another order ends as the walk just made:
\* both return an error or both return the same table
SameOutcome(r) ==
    /\ (r.err.kind = "nil") = (result.err.kind = "nil")
    /\ r.err.kind = "nil" => r.table = result.table

\* C11: for a fixed group and fixed outcomes of the walks of its entries,
\* getValuesBySNMPWalk ends the same way for every order in which the
\* entries are walked: the same table when it succeeds, and an error in
\* every order if in any.
C11_WalkOrderIrrelevant ==
    (WalkerReturned /\ NoCancel) =>
        \A ord \in Perms(DOMAIN arg) : SameOutcome(getValuesBySNMPWalk(arg, ord, <<>>, 0))

\* the protocol calls a walk r of the group arg issued, in their sequence
CallsOf(r) == r.calls

\* a group of several entries was walked, one index of the returned table
\* holds values of two entries, and another order issues the walks in
\* another sequence
C11_Witness ==
    /\ WalkerReturned /\ NoCancel
    /\ result.err.kind = "nil"
    /\ \E idx \in DOMAIN result.table : Cardinality(DOMAIN result.table[idx]) >= 2
    /\ \E ord \in Perms(DOMAIN arg) : CallsOf(getValuesBySNMPWalk(arg, ord, <<>>, 0)) # calls

====
